---- MODULE Spec2Model ----
(***************************************************************************)
(* Cart and checkout logic of frontend/src/pages/ProductsPage.tsx.        *)
(*                                                                         *)
(* The page is a React component: its state are the useState cells (cart,  *)
(* showCart), the data of the products query, the state of the checkout    *)
(* mutation and the createOrder requests in flight.  Event handlers and    *)
(* network callbacks run one at a time on a single thread, so every        *)
(* handler is one atomic action.                                           *)
(*                                                                         *)
(* The product form and the product mutations of the same page, and the   *)
(* user administration of frontend/src/pages/AdminDashboard.tsx, are       *)
(* modelled the same way.                                                  *)
(*                                                                         *)
(* Specifications:                                                         *)
(*   Spec     the shop of ProductsPage as the user can drive it: every     *)
(*            handler is reached through the control that calls it, with   *)
(*            the control's rendering condition and `disabled` prop as     *)
(*            guard;                                                       *)
(*   SpecApp  one mounted page, ProductsPage (shop and catalog) or         *)
(*            AdminDashboard, driven through its controls;                 *)
(*   SpecAdmin                                                             *)
(*            AdminDashboard alone, with the users the backing service     *)
(*            keeps;                                                       *)
(*   SpecCart, SpecOrder, SpecPricing, SpecSnapshot                        *)
(*            the handlers of the Cart Manager, of the Order Submission    *)
(*            Service and of the Pricing Calculator as operations, called  *)
(*            with arguments drawn from bounded sets whatever the rendered *)
(*            controls allow; SpecSnapshot adds a product list whose       *)
(*            names and prices change.                                     *)
(***************************************************************************)
EXTENDS Integers, Sequences, FiniteSets, Bags, TLC

VARIABLES page, user, products, cart, showCart, requests, stale, toast, lastCall,
          editingProduct, showProductForm, mutations,
          users, selectedUser, editingUser, userDialogOpen, tabValue,
          serviceUsers

\* State of ProductsPage that the cart and the checkout never set: the
\* product form and the product mutations in flight.
catalogVars == <<editingProduct, showProductForm>>

\* State of AdminDashboard: the users query, the user dialogs and the tab
\* shown; and the user table the backing service keeps.
adminVars == <<users, selectedUser, editingUser, userDialogOpen, tabValue,
               serviceUsers>>

vars == <<page, user, products, cart, showCart, requests, stale, toast, lastCall,
          catalogVars, mutations, adminVars>>

---------------------------------------------------------------------------
(* Bounds of the model *)

\* the stock_quantity the backing service reports for a product in stock
MaxStock == 1
\* largest quantity a cart line is driven to by add / typed into the field
MaxQty == 2
\* largest number of createOrder requests in flight at once
MaxInFlight == 2
\* largest number of product and user mutations in flight at once
MaxMutations == 1
\* largest quantity given to a cart line when the order summary is computed
MaxPricedQty == 3

---------------------------------------------------------------------------
(* Data *)

ProductIds == {1, 2}

ProductName(id) == IF id = 1 THEN "Pandesal" ELSE "Ensaymada"

ProductPrice(id) == IF id = 1 THEN 10 ELSE 25

\* The Product records the backing service can report for one identifier:
\* sold out or in stock, flagged available or not.
Product(id) ==
    { [id |-> id, name |-> ProductName(id), price |-> ProductPrice(id),
       stock_quantity |-> s, is_available |-> a] :
         s \in {0, MaxStock}, a \in BOOLEAN }

AllProducts == UNION { Product(id) : id \in ProductIds }

\* The results getProducts can deliver: one record per identifier.
ProductLists == { f \in [ProductIds -> AllProducts] : \A id \in ProductIds : f[id].id = id }

\* user?.role; "none" stands for user == null
Roles == {"none", "customer", "baker", "admin", "delivery_person"}

\* JavaScript's NaN (parseInt of an empty field), kept apart from every
\* quantity; arithmetic and comparisons on it go through the Js operators.
NaN == -1

JsAdd(a, b) == IF a = NaN \/ b = NaN THEN NaN ELSE a + b

JsSub(a, b) == IF a = NaN \/ b = NaN THEN NaN ELSE a - b

JsMul(a, b) == IF a = NaN \/ b = NaN THEN NaN ELSE a * b

JsLt(a, b) == a # NaN /\ b # NaN /\ a < b

JsGe(a, b) == a # NaN /\ b # NaN /\ a >= b

\* The strings a number field can hold, and parseInt on them.
FieldValues == {""} \cup { ToString(n) : n \in 0..MaxQty }

parseInt(s) ==
    IF \E n \in 0..MaxQty : ToString(n) = s
    THEN CHOOSE n \in 0..MaxQty : ToString(n) = s
    ELSE NaN

\* The checkout form's data (delivery_address is required by the form).
CheckoutData == [delivery_address : {"Bongao"}, delivery_instructions : {""}]

\* error.message of a rejected createOrder
ErrorMessages == {"", "Insufficient stock"}

\* null of `Product | null` and `User | null`
null == [id |-> 0]

HasLine(c, productId) == \E i \in DOMAIN c : c[i].product.id = productId

---------------------------------------------------------------------------
(* Initial state: the component has mounted and the products query has    *)
(* delivered a first result.                                               *)

Init ==
    /\ page = "ProductsPage"
    /\ user \in Roles
    /\ products \in ProductLists
    /\ cart = <<>>
    /\ showCart = FALSE
    /\ requests = <<>>
    /\ stale = {}
    /\ toast = "none"
    /\ lastCall = "none"
    /\ editingProduct = null
    /\ showProductForm = FALSE
    /\ mutations = <<>>
    /\ users = <<>>
    /\ selectedUser = null
    /\ editingUser = null
    /\ userDialogOpen = FALSE
    /\ tabValue = 0
    /\ serviceUsers = <<>>

---------------------------------------------------------------------------
(* Cart Manager: the handlers of the cart *)

\* Variant of addToCartMutation: the existing line is kept as it is
\* (the `+ 1` is missing).
addToCartMutation_noIncrement(prevCart, product) ==
    IF \E i \in DOMAIN prevCart : prevCart[i].product.id = product.id
    THEN prevCart
    ELSE Append(prevCart, [product |-> product, quantity |-> 1])

\* Variant of addToCartMutation: no search for an existing line, the
\* product is always appended.
addToCartMutation_alwaysAppend(prevCart, product) ==
    Append(prevCart, [product |-> product, quantity |-> 1])

\* Variant of addToCartMutation: the existing line takes over the product
\* it is given along with the increment.
addToCartMutation_refreshSnapshot(prevCart, product) ==
    IF \E i \in DOMAIN prevCart : prevCart[i].product.id = product.id
    THEN [i \in DOMAIN prevCart |->
            IF prevCart[i].product.id = product.id
            THEN [product |-> product, quantity |-> JsAdd(prevCart[i].quantity, 1)]
            ELSE prevCart[i]]
    ELSE Append(prevCart, [product |-> product, quantity |-> 1])

\* The updater addToCartMutation.mutationFn passes to setCart.
addToCartMutation(prevCart, product) ==
    IF \E i \in DOMAIN prevCart : prevCart[i].product.id = product.id
    THEN [i \in DOMAIN prevCart |->
            IF prevCart[i].product.id = product.id
            THEN [prevCart[i] EXCEPT !.quantity = JsAdd(prevCart[i].quantity, 1)]
            ELSE prevCart[i]]
    ELSE Append(prevCart, [product |-> product, quantity |-> 1])

handleAddToCart(product) ==
    IF product.stock_quantity > 0
    THEN /\ cart' = addToCartMutation(cart, product)
         /\ toast' = "Added to cart!"
    ELSE /\ cart' = cart
         /\ toast' = "Product is out of stock"

\* Variant of handleRemoveFromCart: the filter keeps the matching line
\* (=== for !==).
handleRemoveFromCart_keepsMatch(productId) ==
    /\ cart' = SelectSeq(cart, LAMBDA item : item.product.id = productId)
    /\ toast' = "Removed from cart"

handleRemoveFromCart(productId) ==
    /\ cart' = SelectSeq(cart, LAMBDA item : item.product.id # productId)
    /\ toast' = "Removed from cart"

\* Variant of handleUpdateCartQuantity: the removal test is newQuantity < 0.
handleUpdateCartQuantity_belowZero(productId, newQuantity) ==
    IF JsLt(newQuantity, 0)
    THEN handleRemoveFromCart(productId)
    ELSE /\ cart' = [i \in DOMAIN cart |->
                       IF cart[i].product.id = productId
                       THEN [cart[i] EXCEPT !.quantity = newQuantity]
                       ELSE cart[i]]
         /\ toast' = "none"

\* Variant of handleUpdateCartQuantity: the map sets the quantity of every
\* line (the test of the product id is missing).
handleUpdateCartQuantity_allLines(productId, newQuantity) ==
    IF JsLt(newQuantity, 1)
    THEN handleRemoveFromCart(productId)
    ELSE /\ cart' = [i \in DOMAIN cart |-> [cart[i] EXCEPT !.quantity = newQuantity]]
         /\ toast' = "none"

handleUpdateCartQuantity(productId, newQuantity) ==
    IF JsLt(newQuantity, 1)
    THEN handleRemoveFromCart(productId)
    ELSE /\ cart' = [i \in DOMAIN cart |->
                       IF cart[i].product.id = productId
                       THEN [cart[i] EXCEPT !.quantity = newQuantity]
                       ELSE cart[i]]
         /\ toast' = "none"

\* Variant of AddToCartDisabled: only the stock is looked at.
AddToCartDisabled_stockOnly(product) == product.stock_quantity = 0

\* `disabled` of the Add to Cart button
AddToCartDisabled(product) ==
    ~product.is_available \/ product.stock_quantity = 0

\* `disabled` of the + button of a cart line
PlusDisabled(item) == JsGe(item.quantity, item.product.stock_quantity)

\* Model bound: add and + stop at MaxQty.
BelowMaxQty(productId) ==
    \A i \in DOMAIN cart :
        cart[i].product.id = productId => cart[i].quantity < MaxQty

---------------------------------------------------------------------------
(* Order Submission Service *)

\* Variant of OrderItems: every item is sent with quantity 1.
OrderItems_unitQuantity(c) ==
    [i \in DOMAIN c |-> [product_name |-> c[i].product.name, quantity |-> 1]]

\* items of checkoutMutation.mutationFn
OrderItems(c) ==
    [i \in DOMAIN c |-> [product_name |-> c[i].product.name,
                         quantity |-> c[i].quantity]]

\* checkoutMutation.mutate(orderData): the mutation becomes the one the
\* hook observes (current) and its createOrder request is in flight.
checkoutMutation(orderData) ==
    requests' = Append([i \in DOMAIN requests |->
                           [requests[i] EXCEPT !.current = FALSE]],
                       [delivery_address |-> orderData.delivery_address,
                        delivery_instructions |-> orderData.delivery_instructions,
                        items |-> OrderItems(cart),
                        current |-> TRUE])

\* checkoutMutation.isPending: the observed mutation has not settled.
isPending == \E i \in DOMAIN requests : requests[i].current

\* Variant of handleCheckout: no test for the empty cart.
handleCheckout_noEmptyTest(data) ==
    /\ checkoutMutation(data)
    /\ toast' = "none"

handleCheckout(data) ==
    IF Len(cart) = 0
    THEN /\ toast' = "Your cart is empty"
         /\ UNCHANGED requests
    ELSE /\ checkoutMutation(data)
         /\ toast' = "none"

\* Variant of checkoutOnSuccess: the cart is not cleared.
checkoutOnSuccess_keepsCart ==
    /\ stale' = stale \cup {"orders"}
    /\ toast' = "Order placed successfully!"
    /\ cart' = cart
    /\ showCart' = FALSE

checkoutOnSuccess ==
    /\ stale' = stale \cup {"orders"}
    /\ toast' = "Order placed successfully!"
    /\ cart' = <<>>
    /\ showCart' = FALSE

\* Variant of checkoutOnError: the cart is cleared and the dialog closed as
\* on success.
checkoutOnError_clears(message) ==
    /\ toast' = IF message # "" THEN message ELSE "Failed to place order"
    /\ cart' = <<>>
    /\ showCart' = FALSE
    /\ UNCHANGED stale

checkoutOnError(message) ==
    /\ toast' = IF message # "" THEN message ELSE "Failed to place order"
    /\ UNCHANGED <<cart, showCart, stale>>

\* Variant of PlaceOrderDisabled: isPending is not looked at.
PlaceOrderDisabled_emptyOnly == Len(cart) = 0

\* `disabled` of the Place Order button
PlaceOrderDisabled == isPending \/ Len(cart) = 0

RemoveAt(s, i) == [j \in 1..(Len(s) - 1) |-> IF j < i THEN s[j] ELSE s[j + 1]]

\* Variant of CreateOrderResolves: the cart is emptied only when it still
\* holds what the request carried.
CreateOrderResolves_keepsEdited(i) ==
    /\ i \in DOMAIN requests
    /\ requests' = RemoveAt(requests, i)
    /\ lastCall' = "checkoutMutation.onSuccess"
    /\ IF requests[i].items = OrderItems(cart)
       THEN checkoutOnSuccess
       ELSE checkoutOnSuccess_keepsCart
    /\ UNCHANGED <<page, user, products, catalogVars, mutations, adminVars>>

\* The backing service answers request i with success.
CreateOrderResolves(i) ==
    /\ i \in DOMAIN requests
    /\ requests' = RemoveAt(requests, i)
    /\ lastCall' = "checkoutMutation.onSuccess"
    /\ checkoutOnSuccess
    /\ UNCHANGED <<page, user, products, catalogVars, mutations, adminVars>>

\* Variant of CreateOrderRejects: the failed request is sent again (a retry
\* of the mutation), so it stays in flight after the failure callback.
CreateOrderRejects_resends(i, message) ==
    /\ i \in DOMAIN requests
    /\ requests' = requests
    /\ lastCall' = "checkoutMutation.onError"
    /\ checkoutOnError(message)
    /\ UNCHANGED <<page, user, products, catalogVars, mutations, adminVars>>

\* The backing service answers request i with an error.
CreateOrderRejects(i, message) ==
    /\ i \in DOMAIN requests
    /\ requests' = RemoveAt(requests, i)
    /\ lastCall' = "checkoutMutation.onError"
    /\ checkoutOnError(message)
    /\ UNCHANGED <<page, user, products, catalogVars, mutations, adminVars>>

---------------------------------------------------------------------------
(* Catalog Store *)

\* The products query delivers a new result.  Results are taken one changed
\* product at a time: every list is reached that way, and each step is a
\* result the service can deliver.
RefetchProducts(product) ==
    /\ page = "ProductsPage"
    /\ product # products[product.id]
    /\ products' = [products EXCEPT ![product.id] = product]
    /\ stale' = stale \ {"products"}
    /\ UNCHANGED <<user, cart, showCart, requests, toast, lastCall>>
    /\ UNCHANGED <<page, catalogVars, mutations, adminVars>>

---------------------------------------------------------------------------
(* The page as the user drives it *)

\* A click on the Add to Cart button of a product card; the browser drops
\* the click when the button is disabled.
ClickAddToCart(id) ==
    /\ user = "customer"
    /\ BelowMaxQty(id)
    /\ IF AddToCartDisabled(products[id])
       THEN /\ lastCall' = "AddToCart.disabled"
            /\ toast' = "none"
            /\ cart' = cart
       ELSE /\ lastCall' = "handleAddToCart"
            /\ handleAddToCart(products[id])
    /\ UNCHANGED <<user, products, showCart, requests, stale>>
    /\ UNCHANGED <<page, catalogVars, mutations, adminVars>>

OpenCart ==
    /\ page = "ProductsPage"
    /\ ~showCart
    /\ showCart' = TRUE
    /\ UNCHANGED <<user, products, cart, requests, stale, toast, lastCall>>
    /\ UNCHANGED <<page, catalogVars, mutations, adminVars>>

\* Variant of CloseCart: closing the dialog also empties the cart.
CloseCart_clears ==
    /\ page = "ProductsPage"
    /\ showCart
    /\ showCart' = FALSE
    /\ cart' = <<>>
    /\ UNCHANGED <<user, products, requests, stale, toast, lastCall>>
    /\ UNCHANGED <<page, catalogVars, mutations, adminVars>>

CloseCart ==
    /\ page = "ProductsPage"
    /\ showCart
    /\ showCart' = FALSE
    /\ UNCHANGED <<user, products, cart, requests, stale, toast, lastCall>>
    /\ UNCHANGED <<page, catalogVars, mutations, adminVars>>

\* Variant of CartFrame: the cart handlers invalidate the products query.
CartFrame_invalidates ==
    /\ stale' = stale \cup {"products"}
    /\ UNCHANGED <<page, user, products, showCart, requests,
                   catalogVars, mutations, adminVars>>

CartFrame ==
    UNCHANGED <<page, user, products, showCart, requests, stale,
                catalogVars, mutations, adminVars>>

ClickMinus(i) ==
    /\ showCart
    /\ i \in DOMAIN cart
    /\ lastCall' = "handleUpdateCartQuantity"
    /\ handleUpdateCartQuantity(cart[i].product.id, JsSub(cart[i].quantity, 1))
    /\ CartFrame

ChangeQuantityField(i, value) ==
    /\ showCart
    /\ i \in DOMAIN cart
    /\ lastCall' = "handleUpdateCartQuantity"
    /\ handleUpdateCartQuantity(cart[i].product.id, parseInt(value))
    /\ CartFrame

ClickPlus(i) ==
    /\ showCart
    /\ i \in DOMAIN cart
    /\ ~PlusDisabled(cart[i])
    /\ BelowMaxQty(cart[i].product.id)
    /\ lastCall' = "handleUpdateCartQuantity"
    /\ handleUpdateCartQuantity(cart[i].product.id, JsAdd(cart[i].quantity, 1))
    /\ CartFrame

ClickRemove(i) ==
    /\ showCart
    /\ i \in DOMAIN cart
    /\ lastCall' = "handleRemoveFromCart"
    /\ handleRemoveFromCart(cart[i].product.id)
    /\ CartFrame

\* The checkout form is rendered for a non-empty cart only.
SubmitCheckout(data) ==
    /\ showCart
    /\ Len(cart) # 0
    /\ ~PlaceOrderDisabled
    /\ Len(requests) < MaxInFlight
    /\ lastCall' = "handleCheckout"
    /\ handleCheckout(data)
    /\ UNCHANGED <<user, products, cart, showCart, stale>>
    /\ UNCHANGED <<page, catalogVars, mutations, adminVars>>

Next ==
    \/ \E id \in ProductIds : ClickAddToCart(id)
    \/ OpenCart
    \/ CloseCart
    \/ \E i \in DOMAIN cart : ClickMinus(i)
    \/ \E i \in DOMAIN cart : \E value \in FieldValues : ChangeQuantityField(i, value)
    \/ \E i \in DOMAIN cart : ClickPlus(i)
    \/ \E i \in DOMAIN cart : ClickRemove(i)
    \/ \E data \in CheckoutData : SubmitCheckout(data)
    \/ \E i \in DOMAIN requests : CreateOrderResolves(i)
    \/ \E i \in DOMAIN requests : \E message \in ErrorMessages : CreateOrderRejects(i, message)
    \/ \E product \in AllProducts : RefetchProducts(product)

Spec == Init /\ [][Next]_vars

---------------------------------------------------------------------------
(* Catalog Mutation Service: the product form and the product mutations *)

\* user?.email; "" stands for undefined (no user signed in)
UserEmail == IF user = "none" THEN "" ELSE user \o "@bakery.com"

\* The data the product form delivers to its submit handler.
ProductFormData == [name : {"Monay"}, stock_quantity : {MaxStock}]

\* useMutation(...).mutate(variables): one request to the backing service
\* is in flight.
Mutate(kind, variables) ==
    mutations' = mutations (+) SetToBag({[kind |-> kind, variables |-> variables]})

\* Variant of handleCreateProduct: user?.email is sent as it is, without the
\* default.
handleCreateProduct_noFallback(data) ==
    LET productDataWithBaker ==
            [name |-> data.name, stock_quantity |-> data.stock_quantity,
             baker_email |-> UserEmail]
    IN  /\ Mutate("createProduct", productDataWithBaker)
        /\ UNCHANGED <<editingProduct, showProductForm>>

handleCreateProduct(data) ==
    LET bakerEmail == IF UserEmail # "" THEN UserEmail ELSE "default@baker.com"
        productDataWithBaker ==
            [name |-> data.name, stock_quantity |-> data.stock_quantity,
             baker_email |-> bakerEmail]
    IN  /\ Mutate("createProduct", productDataWithBaker)
        /\ UNCHANGED <<editingProduct, showProductForm>>

handleUpdateProduct(data) ==
    /\ IF editingProduct # null
       THEN Mutate("updateProduct", [id |-> editingProduct.id, data |-> data])
       ELSE UNCHANGED mutations
    /\ UNCHANGED <<editingProduct, showProductForm>>

handleEditProduct(product) ==
    /\ editingProduct' = product
    /\ UNCHANGED <<showProductForm, mutations>>

\* Variant of handleDeleteProduct: the answer of window.confirm is ignored.
handleDeleteProduct_noConfirm(id, confirmed) ==
    /\ Mutate("deleteProduct", [id |-> id])
    /\ UNCHANGED <<editingProduct, showProductForm>>

\* confirmed: what window.confirm returns
handleDeleteProduct(id, confirmed) ==
    /\ IF confirmed
       THEN Mutate("deleteProduct", [id |-> id])
       ELSE UNCHANGED mutations
    /\ UNCHANGED <<editingProduct, showProductForm>>

createProductOnSuccess ==
    /\ stale' = stale \cup {"products"}
    /\ toast' = "Product created successfully!"
    /\ showProductForm' = FALSE
    /\ UNCHANGED editingProduct

\* Variant of createProductOnError: the product list is invalidated as on
\* success.
createProductOnError_invalidates(message) ==
    /\ stale' = stale \cup {"products"}
    /\ toast' = IF message # "" THEN message ELSE "Failed to create product"
    /\ UNCHANGED <<editingProduct, showProductForm>>

createProductOnError(message) ==
    /\ toast' = IF message # "" THEN message ELSE "Failed to create product"
    /\ UNCHANGED <<stale, editingProduct, showProductForm>>

updateProductOnSuccess ==
    /\ stale' = stale \cup {"products"}
    /\ toast' = "Product updated successfully!"
    /\ editingProduct' = null
    /\ UNCHANGED showProductForm

updateProductOnError(message) ==
    /\ toast' = IF message # "" THEN message ELSE "Failed to update product"
    /\ UNCHANGED <<stale, editingProduct, showProductForm>>

deleteProductOnSuccess ==
    /\ stale' = stale \cup {"products"}
    /\ toast' = "Product deleted successfully!"
    /\ UNCHANGED <<editingProduct, showProductForm>>

deleteProductOnError(message) ==
    /\ toast' = IF message # "" THEN message ELSE "Failed to delete product"
    /\ UNCHANGED <<stale, editingProduct, showProductForm>>

ProductMutations == {"createProduct", "updateProduct", "deleteProduct"}

\* What no product handler or callback sets.
CatalogFrame == UNCHANGED <<page, user, products, cart, showCart, requests, adminVars>>

\* The backing service answers the product mutation m with success.
ProductMutationResolves(m) ==
    /\ BagIn(m, mutations)
    /\ m.kind \in ProductMutations
    /\ mutations' = mutations (-) SetToBag({m})
    /\ lastCall' = m.kind \o ".onSuccess"
    /\ CASE m.kind = "createProduct" -> createProductOnSuccess
         [] m.kind = "updateProduct" -> updateProductOnSuccess
         [] m.kind = "deleteProduct" -> deleteProductOnSuccess
    /\ CatalogFrame

\* The backing service answers the product mutation m with an error.
ProductMutationRejects(m, message) ==
    /\ BagIn(m, mutations)
    /\ m.kind \in ProductMutations
    /\ mutations' = mutations (-) SetToBag({m})
    /\ lastCall' = m.kind \o ".onError"
    /\ CASE m.kind = "createProduct" -> createProductOnError(message)
         [] m.kind = "updateProduct" -> updateProductOnError(message)
         [] m.kind = "deleteProduct" -> deleteProductOnError(message)
    /\ CatalogFrame

\* Model bound: a further request can be sent.
BelowMaxMutations == BagCardinality(mutations) < MaxMutations

\* Variant of ClickAddProduct: the button is rendered for every role.
ClickAddProduct_anyRole ==
    /\ page = "ProductsPage"
    /\ ~showProductForm
    /\ showProductForm' = TRUE
    /\ UNCHANGED <<editingProduct, mutations, stale, toast, lastCall>>
    /\ CatalogFrame

\* The Add Product button, rendered for user?.role !== 'customer'.
ClickAddProduct ==
    /\ page = "ProductsPage"
    /\ user # "customer"
    /\ ~showProductForm
    /\ showProductForm' = TRUE
    /\ UNCHANGED <<editingProduct, mutations, stale, toast, lastCall>>
    /\ CatalogFrame

\* The Edit button of a product card, rendered when the role is not customer.
ClickEditProduct(id) ==
    /\ page = "ProductsPage"
    /\ user # "customer"
    /\ editingProduct # products[id]
    /\ handleEditProduct(products[id])
    /\ UNCHANGED <<stale, toast, lastCall>>
    /\ CatalogFrame

\* The Delete button of a product card and the answer to window.confirm.
ClickDeleteProduct(id, confirmed) ==
    /\ page = "ProductsPage"
    /\ user # "customer"
    /\ BelowMaxMutations
    /\ lastCall' = IF confirmed THEN "handleDeleteProduct" ELSE "handleDeleteProduct.declined"
    /\ handleDeleteProduct(id, confirmed)
    /\ toast' = "none"
    /\ UNCHANGED stale
    /\ CatalogFrame

\* `open` of the product form dialog
ProductFormOpen == showProductForm \/ editingProduct # null

\* onClose of the product form dialog, and its Cancel button
CloseProductForm ==
    /\ page = "ProductsPage"
    /\ ProductFormOpen
    /\ showProductForm' = FALSE
    /\ editingProduct' = null
    /\ UNCHANGED <<mutations, stale, toast, lastCall>>
    /\ CatalogFrame

\* onSubmit of the product form
SubmitProductForm(data) ==
    /\ page = "ProductsPage"
    /\ ProductFormOpen
    /\ BelowMaxMutations
    /\ IF editingProduct # null
       THEN /\ lastCall' = "handleUpdateProduct"
            /\ handleUpdateProduct(data)
       ELSE /\ lastCall' = "handleCreateProduct"
            /\ handleCreateProduct(data)
    /\ toast' = "none"
    /\ UNCHANGED stale
    /\ CatalogFrame

NextCatalog ==
    \/ ClickAddProduct
    \/ \E id \in ProductIds : ClickEditProduct(id)
    \/ \E id \in ProductIds : \E confirmed \in BOOLEAN : ClickDeleteProduct(id, confirmed)
    \/ CloseProductForm
    \/ \E data \in ProductFormData : SubmitProductForm(data)
    \/ \E m \in BagToSet(mutations) : ProductMutationResolves(m)
    \/ \E m \in BagToSet(mutations) : \E message \in ErrorMessages : ProductMutationRejects(m, message)

---------------------------------------------------------------------------
(* User Administration Service: AdminDashboard *)

UserIds == {1, 2}

\* user?.id of the signed-in admin
AuthUserId == 1

\* The signed-in admin is user 1; user 2 is a baker or a delivery person.
UserRoles(id) == IF id = AuthUserId THEN {"admin"} ELSE {"baker", "delivery_person"}

\* The User records the backing service can report for one identifier; the
\* signed-in admin's account is active (the active flag gates login).
User(id) ==
    { [id |-> id, role |-> r, is_active |-> a] :
        r \in UserRoles(id), a \in IF id = AuthUserId THEN {TRUE} ELSE BOOLEAN }

AllUsers == UNION { User(id) : id \in UserIds }

\* The results getUsers can deliver: one record per identifier.
UserLists == { f \in [UserIds -> AllUsers] : \A id \in UserIds : f[id].id = id }

\* formData of UserForm when it is submitted: is_active is what the form
\* took from its user when it was mounted (true when there is none), the
\* role is what the select holds.
UserFormData(u) ==
    [role : {"baker", "delivery_person"},
     is_active : {IF u # null THEN u.is_active ELSE TRUE}]

---------------------------------------------------------------------------
(* The backing service's user operations *)

\* A partial update: the fields given replace the stored ones.
PartialUpdate(u, partialData) ==
    [f \in DOMAIN u |-> IF f \in DOMAIN partialData THEN partialData[f] ELSE u[f]]

\* updateUser(id, partialData) -> void
updateUser(id, partialData) ==
    serviceUsers' = [serviceUsers EXCEPT ![id] = PartialUpdate(@, partialData)]

\* deactivateUser(id) -> void: sets the active flag false.
deactivateUser(id) ==
    serviceUsers' = [serviceUsers EXCEPT ![id].is_active = FALSE]

\* listUsers() -> User[]
getUsers == serviceUsers

---------------------------------------------------------------------------
(* AdminDashboard: handlers and callbacks *)

handleTabChange(newValue) ==
    /\ tabValue' = newValue
    /\ UNCHANGED <<selectedUser, editingUser, userDialogOpen, mutations>>

\* Variant of handleDeactivateUser: the answer of window.confirm is ignored.
handleDeactivateUser_noConfirm(userId, confirmed) ==
    /\ Mutate("deactivateUser", [id |-> userId])
    /\ UNCHANGED <<selectedUser, editingUser, userDialogOpen>>

handleDeactivateUser(userId, confirmed) ==
    /\ IF confirmed
       THEN Mutate("deactivateUser", [id |-> userId])
       ELSE UNCHANGED mutations
    /\ UNCHANGED <<selectedUser, editingUser, userDialogOpen>>

\* Variant of handleActivateUser: the update carries the role of a baker
\* besides the flag.
handleActivateUser_withRole(userId, confirmed) ==
    /\ IF confirmed
       THEN Mutate("updateUser", [id |-> userId,
                                  userData |-> [role |-> "baker", is_active |-> TRUE]])
       ELSE UNCHANGED mutations
    /\ UNCHANGED <<selectedUser, editingUser, userDialogOpen>>

handleActivateUser(userId, confirmed) ==
    /\ IF confirmed
       THEN Mutate("updateUser", [id |-> userId, userData |-> [is_active |-> TRUE]])
       ELSE UNCHANGED mutations
    /\ UNCHANGED <<selectedUser, editingUser, userDialogOpen>>

handleEditUser(u) ==
    /\ editingUser' = u
    /\ userDialogOpen' = TRUE
    /\ UNCHANGED <<selectedUser, mutations>>

\* Variant of handleUpdateUser: without a user being edited the form's data
\* is sent for the signed-in user.
handleUpdateUser_noEditingTest(userData) ==
    /\ Mutate("updateUser",
              [id |-> IF editingUser # null THEN editingUser.id ELSE AuthUserId,
               userData |-> userData])
    /\ UNCHANGED <<selectedUser, editingUser, userDialogOpen>>

handleUpdateUser(userData) ==
    /\ IF editingUser # null
       THEN Mutate("updateUser", [id |-> editingUser.id, userData |-> userData])
       ELSE UNCHANGED mutations
    /\ UNCHANGED <<selectedUser, editingUser, userDialogOpen>>

updateUserOnSuccess ==
    /\ stale' = stale \cup {"admin-users"}
    /\ toast' = "User updated successfully!"
    /\ editingUser' = null
    /\ userDialogOpen' = FALSE
    /\ UNCHANGED selectedUser

\* Variant of updateUserOnError: the dialog is closed as on success.
updateUserOnError_closes(message) ==
    /\ toast' = IF message # "" THEN message ELSE "Failed to update user"
    /\ editingUser' = null
    /\ userDialogOpen' = FALSE
    /\ UNCHANGED <<stale, selectedUser>>

updateUserOnError(message) ==
    /\ toast' = IF message # "" THEN message ELSE "Failed to update user"
    /\ UNCHANGED <<stale, selectedUser, editingUser, userDialogOpen>>

deactivateUserOnSuccess ==
    /\ stale' = stale \cup {"admin-users"}
    /\ toast' = "User deactivated successfully!"
    /\ selectedUser' = null
    /\ UNCHANGED <<editingUser, userDialogOpen>>

deactivateUserOnError(message) ==
    /\ toast' = IF message # "" THEN message ELSE "Failed to deactivate user"
    /\ UNCHANGED <<stale, selectedUser, editingUser, userDialogOpen>>

UserMutations == {"updateUser", "deactivateUser"}

\* What no user handler or callback sets.
AdminFrame ==
    UNCHANGED <<page, user, products, cart, showCart, requests, catalogVars>>

\* The backing service carries out the user mutation m and answers with
\* success.
UserMutationResolves(m) ==
    /\ BagIn(m, mutations)
    /\ m.kind \in UserMutations
    /\ mutations' = mutations (-) SetToBag({m})
    /\ lastCall' = m.kind \o ".onSuccess"
    /\ CASE m.kind = "updateUser" ->
                /\ updateUser(m.variables.id, m.variables.userData)
                /\ updateUserOnSuccess
         [] m.kind = "deactivateUser" ->
                /\ deactivateUser(m.variables.id)
                /\ deactivateUserOnSuccess
    /\ UNCHANGED <<users, tabValue>>
    /\ AdminFrame

\* The backing service answers the user mutation m with an error: nothing
\* is changed.
UserMutationRejects(m, message) ==
    /\ BagIn(m, mutations)
    /\ m.kind \in UserMutations
    /\ mutations' = mutations (-) SetToBag({m})
    /\ lastCall' = m.kind \o ".onError"
    /\ CASE m.kind = "updateUser" -> updateUserOnError(message)
         [] m.kind = "deactivateUser" -> deactivateUserOnError(message)
    /\ UNCHANGED <<users, tabValue, serviceUsers>>
    /\ AdminFrame

\* The users query delivers the service's list.
RefetchUsers ==
    /\ page = "AdminDashboard"
    /\ users # getUsers
    /\ users' = getUsers
    /\ stale' = stale \ {"admin-users"}
    /\ UNCHANGED <<selectedUser, editingUser, userDialogOpen, mutations, toast, lastCall>>
    /\ UNCHANGED <<tabValue, serviceUsers>>
    /\ AdminFrame

---------------------------------------------------------------------------
(* AdminDashboard as the admin drives it *)

\* The labels of <Tabs>: Bakers, All Users, Orders, Products
Tabs == 0..3

\* Both dialogs are modal: while one is open the tabs and the tables behind
\* it take no click.
NoDialog == ~userDialogOpen /\ selectedUser = null

\* row is a row of the table of the Bakers tab (<TabPanel index={0}>, over
\* bakerUsers).
BakerRow(row) == tabValue = 0 /\ row.role = "baker"

\* row is a row of the table of the All Users tab (<TabPanel index={1}>).
UserRow(row) == tabValue = 1

\* Variant of AllUsersDeactivate: the row is compared with the signed-in
\* user.
AllUsersDeactivate_authUser(row) == row.is_active /\ row.id # AuthUserId

\* The condition under which a row of the All Users tab renders Deactivate:
\* `user.is_active && user.id !== user?.id`, where user is the row (the
\* parameter of users.map hides the signed-in user).
AllUsersDeactivate(row) == row.is_active /\ row.id # row.id

\* The row renders a control that calls handleDeactivateUser.
DeactivateShown(row) ==
    \/ BakerRow(row) /\ row.is_active
    \/ UserRow(row) /\ AllUsersDeactivate(row)

\* The row renders a control that calls handleActivateUser.
ActivateShown(row) ==
    \/ BakerRow(row) /\ ~row.is_active
    \/ UserRow(row) /\ ~row.is_active

\* What the clicks on the dashboard leave alone.
ClickFrame ==
    /\ UNCHANGED <<users, stale, serviceUsers>>
    /\ AdminFrame

\* A click on another tab
ClickTab(newValue) ==
    /\ page = "AdminDashboard"
    /\ NoDialog
    /\ newValue # tabValue
    /\ handleTabChange(newValue)
    /\ UNCHANGED <<toast, lastCall>>
    /\ ClickFrame

\* The Add Baker button of the Bakers tab
ClickAddBaker ==
    /\ page = "AdminDashboard"
    /\ NoDialog
    /\ tabValue = 0
    /\ userDialogOpen' = TRUE
    /\ UNCHANGED <<toast, lastCall>>
    /\ UNCHANGED <<selectedUser, editingUser, mutations, tabValue>>
    /\ ClickFrame

\* The Edit button of a row of the Bakers tab
ClickEditUser(id) ==
    /\ page = "AdminDashboard"
    /\ NoDialog
    /\ id \in DOMAIN users
    /\ BakerRow(users[id])
    /\ UNCHANGED <<toast, lastCall, tabValue>>
    /\ handleEditUser(users[id])
    /\ ClickFrame

\* The delete button of an active baker's row (and Deactivate of a row of
\* the All Users tab, where rendered), and the answer to window.confirm.
ClickDeactivateUser(id, confirmed) ==
    /\ page = "AdminDashboard"
    /\ NoDialog
    /\ id \in DOMAIN users
    /\ DeactivateShown(users[id])
    /\ BelowMaxMutations
    /\ lastCall' = IF confirmed THEN "handleDeactivateUser" ELSE "handleDeactivateUser.declined"
    /\ handleDeactivateUser(id, confirmed)
    /\ toast' = "none"
    /\ UNCHANGED tabValue
    /\ ClickFrame

\* The Activate button of a row (Bakers tab: an inactive baker; All Users
\* tab: an inactive user), and the answer to window.confirm.
ClickActivateUser(id, confirmed) ==
    /\ page = "AdminDashboard"
    /\ NoDialog
    /\ id \in DOMAIN users
    /\ ActivateShown(users[id])
    /\ BelowMaxMutations
    /\ lastCall' = IF confirmed THEN "handleActivateUser" ELSE "handleActivateUser.declined"
    /\ handleActivateUser(id, confirmed)
    /\ toast' = "none"
    /\ UNCHANGED tabValue
    /\ ClickFrame

\* The View button of a row of the All Users tab
ClickViewUser(id) ==
    /\ page = "AdminDashboard"
    /\ NoDialog
    /\ id \in DOMAIN users
    /\ UserRow(users[id])
    /\ selectedUser' = users[id]
    /\ UNCHANGED <<toast, lastCall>>
    /\ UNCHANGED <<editingUser, userDialogOpen, mutations, tabValue>>
    /\ ClickFrame

\* onClose and Close of the User Details dialog
CloseUserDetails ==
    /\ page = "AdminDashboard"
    /\ selectedUser # null
    /\ selectedUser' = null
    /\ UNCHANGED <<toast, lastCall>>
    /\ UNCHANGED <<editingUser, userDialogOpen, mutations, tabValue>>
    /\ ClickFrame

\* onClose of the user dialog, and onCancel of its form
CloseUserDialog ==
    /\ page = "AdminDashboard"
    /\ userDialogOpen
    /\ userDialogOpen' = FALSE
    /\ editingUser' = null
    /\ UNCHANGED <<toast, lastCall>>
    /\ UNCHANGED <<selectedUser, mutations, tabValue>>
    /\ ClickFrame

\* onSubmit of UserForm
SubmitUserForm(userData) ==
    /\ page = "AdminDashboard"
    /\ userDialogOpen
    /\ BelowMaxMutations
    /\ lastCall' = "handleUpdateUser"
    /\ handleUpdateUser(userData)
    /\ toast' = "none"
    /\ UNCHANGED tabValue
    /\ ClickFrame

NextAdmin ==
    \/ RefetchUsers
    \/ \E newValue \in Tabs : ClickTab(newValue)
    \/ ClickAddBaker
    \/ \E id \in UserIds : ClickEditUser(id)
    \/ \E id \in UserIds : \E confirmed \in BOOLEAN : ClickDeactivateUser(id, confirmed)
    \/ \E id \in UserIds : \E confirmed \in BOOLEAN : ClickActivateUser(id, confirmed)
    \/ \E id \in UserIds : ClickViewUser(id)
    \/ CloseUserDetails
    \/ CloseUserDialog
    \/ \E userData \in UserFormData(editingUser) : SubmitUserForm(userData)
    \/ \E m \in BagToSet(mutations) : UserMutationResolves(m)
    \/ \E m \in BagToSet(mutations) : \E message \in ErrorMessages : UserMutationRejects(m, message)

\* AdminDashboard has mounted for the signed-in admin; the users query has
\* not delivered yet.
InitAdmin ==
    /\ page = "AdminDashboard"
    /\ user = "admin"
    /\ products = <<>>
    /\ cart = <<>>
    /\ showCart = FALSE
    /\ requests = <<>>
    /\ stale = {}
    /\ toast = "none"
    /\ lastCall = "none"
    /\ editingProduct = null
    /\ showProductForm = FALSE
    /\ mutations = <<>>
    /\ users = <<>>
    /\ selectedUser = null
    /\ editingUser = null
    /\ userDialogOpen = FALSE
    /\ tabValue = 0
    /\ serviceUsers \in UserLists

SpecAdmin == InitAdmin /\ [][NextAdmin]_vars

---------------------------------------------------------------------------
(* One mounted page *)

\* ProductsPage is mounted for any visitor, AdminDashboard for the admin.
InitApp ==
    \/ Init
    \/ InitAdmin

NextApp ==
    \/ Next
    \/ NextCatalog
    \/ NextAdmin

SpecApp == InitApp /\ [][NextApp]_vars

---------------------------------------------------------------------------
(* Pricing Calculator: calculateCartTotal and the Order Summary *)

\* Variant of calculateCartTotal: the reducer drops the accumulator and
\* returns the amount of the line.
calculateCartTotal_lastLine(c) ==
    IF Len(c) = 0 THEN 0
    ELSE JsMul(c[Len(c)].product.price, c[Len(c)].quantity)

\* cart.reduce((total, item) => total + item.product.price * item.quantity, 0)
RECURSIVE calculateCartTotal(_)
calculateCartTotal(c) ==
    IF Len(c) = 0 THEN 0
    ELSE JsAdd(calculateCartTotal(SubSeq(c, 1, Len(c) - 1)),
               JsMul(c[Len(c)].product.price, c[Len(c)].quantity))

\* The delivery fee of the Order Summary, in pesos.
DeliveryFee == 50

\* The tax rate of the Order Summary, in percent (0.12).
TaxPercent == 12

\* Number.prototype.toFixed(2) of an amount given in hundredths.
toFixed(hundredths) ==
    IF hundredths = NaN THEN "NaN"
    ELSE ToString(hundredths \div 100) \o "." \o
         (IF hundredths % 100 < 10 THEN "0" ELSE "") \o ToString(hundredths % 100)

\* Variant of OrderSummary: the tax is taken on subtotal plus delivery fee.
OrderSummary_taxOnFee(c) ==
    LET subtotal == JsMul(calculateCartTotal(c), 100)
        tax == JsMul(JsAdd(calculateCartTotal(c), DeliveryFee), TaxPercent)
    IN  [subtotal |-> toFixed(subtotal),
         delivery |-> "50.00",
         tax |-> toFixed(tax),
         total |-> toFixed(JsAdd(JsAdd(subtotal, DeliveryFee * 100), tax))]

\* The amounts the Order Summary shows for cart c; the arithmetic is done in
\* hundredths of a peso.
OrderSummary(c) ==
    LET subtotal == JsMul(calculateCartTotal(c), 100)
        tax == JsMul(calculateCartTotal(c), TaxPercent)
    IN  [subtotal |-> toFixed(subtotal),
         delivery |-> "50.00",
         tax |-> toFixed(tax),
         total |-> toFixed(JsAdd(JsAdd(subtotal, DeliveryFee * 100), tax))]

---------------------------------------------------------------------------
(* The handlers as operations, component by component *)

\* newQuantity: number
Quantities == {NaN} \cup (0..MaxQty)

\* An identifier no listed product has.
UnlistedId == 0

\* productId: number
ProductIdArgs == ProductIds \cup {UnlistedId}

CallAddToCart(product) ==
    /\ BelowMaxQty(product.id)
    /\ lastCall' = "handleAddToCart"
    /\ handleAddToCart(product)
    /\ CartFrame

CallUpdateCartQuantity(productId, newQuantity) ==
    /\ lastCall' = "handleUpdateCartQuantity"
    /\ handleUpdateCartQuantity(productId, newQuantity)
    /\ CartFrame

CallRemoveFromCart(productId) ==
    /\ lastCall' = "handleRemoveFromCart"
    /\ handleRemoveFromCart(productId)
    /\ CartFrame

CallCheckout(data) ==
    /\ Len(requests) < MaxInFlight
    /\ lastCall' = "handleCheckout"
    /\ handleCheckout(data)
    /\ UNCHANGED <<user, products, cart, showCart, stale>>
    /\ UNCHANGED <<page, catalogVars, mutations, adminVars>>

InitOps ==
    /\ Init
    /\ user = "customer"
    /\ \A id \in ProductIds : products[id].stock_quantity = MaxStock /\ products[id].is_available

\* Cart Manager: its three operations on any arguments.
NextCart ==
    \/ \E product \in AllProducts : CallAddToCart(product)
    \/ \E id \in ProductIdArgs : \E n \in Quantities : CallUpdateCartQuantity(id, n)
    \/ \E id \in ProductIdArgs : CallRemoveFromCart(id)

SpecCart == InitOps /\ [][NextCart]_vars

\* Order Submission Service: handleCheckout called in any state of a cart
\* that is filled with listed products, and the answers of the service.
NextOrder ==
    \/ \E id \in ProductIds : CallAddToCart(products[id])
    \/ \E id \in ProductIds : CallRemoveFromCart(id)
    \/ \E data \in CheckoutData : CallCheckout(data)
    \/ \E i \in DOMAIN requests : CreateOrderResolves(i)
    \/ \E i \in DOMAIN requests : \E message \in ErrorMessages : CreateOrderRejects(i, message)

SpecOrder == InitOps /\ [][NextOrder]_vars

\* newQuantity when the order summary is computed
PricedQuantities == {NaN} \cup (0..MaxPricedQty)

\* Pricing Calculator: the order summary of every cart the Cart Manager's
\* operations build.
NextPricing ==
    \/ \E product \in AllProducts : CallAddToCart(product)
    \/ \E id \in ProductIds : \E n \in PricedQuantities : CallUpdateCartQuantity(id, n)
    \/ \E id \in ProductIds : CallRemoveFromCart(id)

SpecPricing == InitOps /\ [][NextPricing]_vars

\* A listed product under a new name and price, as an edit of the product
\* leaves it.
Relisted(id) ==
    { [p EXCEPT !.name = @ \o " Special", !.price = @ + 5] :
        p \in { q \in Product(id) : q.stock_quantity > 0 /\ q.is_available } }

\* Cart Manager against a product list that is refreshed: the listed
\* products are added while the list delivers them under changed data.
NextSnapshot ==
    \/ \E id \in ProductIds : CallAddToCart(products[id])
    \/ \E id \in ProductIds : CallRemoveFromCart(id)
    \/ \E id \in ProductIds : \E product \in Product(id) \cup Relisted(id) :
          RefetchProducts(product)

SpecSnapshot == InitOps /\ [][NextSnapshot]_vars

TypeOK ==
    /\ user \in Roles
    /\ products = <<>> \/ products \in ProductLists
    /\ showCart \in BOOLEAN
    /\ stale \subseteq {"orders", "products", "admin-users"}
    /\ Len(requests) <= MaxInFlight
    /\ page \in {"ProductsPage", "AdminDashboard"}
    /\ editingProduct \in AllProducts \cup {null}
    /\ showProductForm \in BOOLEAN
    /\ BagCardinality(mutations) <= MaxMutations
    /\ users = <<>> \/ users \in UserLists
    /\ selectedUser \in AllUsers \cup {null}
    /\ editingUser \in AllUsers \cup {null}
    /\ userDialogOpen \in BOOLEAN
    /\ tabValue \in Tabs
    /\ serviceUsers = <<>> \/ serviceUsers \in UserLists

---------------------------------------------------------------------------
(* Properties *)

\* The product can not be bought: out of stock or flagged unavailable.
Unpurchasable(p) == p.stock_quantity = 0 \/ ~p.is_available

\* The lines of c that are not for productId, in order.
WithoutLine(c, productId) == SelectSeq(c, LAMBDA item : item.product.id # productId)

Clamp(n, lo, hi) == IF n < lo THEN lo ELSE IF n > hi THEN hi ELSE n

\* A control of cart line i calls handleUpdateCartQuantity with newQuantity n.
UpdateQuantityVia(i, n) ==
    \/ n = JsSub(cart[i].quantity, 1) /\ ClickMinus(i)
    \/ \E value \in FieldValues : n = parseInt(value) /\ ChangeQuantityField(i, value)
    \/ n = JsAdd(cart[i].quantity, 1) /\ ClickPlus(i)

\* C1: in every reachable state every cart line's quantity q satisfies
\* 1 <= q <= the live stock_quantity of its product.
C1_QuantityWithinLiveStock ==
    \A i \in DOMAIN cart :
        /\ JsGe(cart[i].quantity, 1)
        /\ JsGe(products[cart[i].product.id].stock_quantity, cart[i].quantity)

\* C2: adding a product that is out of stock or not available leaves the
\* cart contents unchanged.
C2_UnpurchasableAddKeepsCart ==
    [][\A id \in ProductIds :
          (ClickAddToCart(id) /\ Unpurchasable(products[id])) => cart' = cart]_vars

C2_Witness ==
    /\ lastCall = "AddToCart.disabled"
    /\ Len(cart) > 0

\* C3: updateQuantity with newQuantity >= 1 on a product in the cart stores
\* newQuantity clamped into [1, stock_quantity of the line's product].
C3_UpdateClampsToStock ==
    [][\A i \in DOMAIN cart : \A n \in Quantities :
          (JsGe(n, 1) /\ UpdateQuantityVia(i, n)) =>
              /\ Len(cart') = Len(cart)
              /\ cart'[i].quantity = Clamp(n, 1, cart[i].product.stock_quantity)]_vars

\* C4: updateQuantity with newQuantity < 1 on a product in the cart has the
\* effect of removeFromCart: no line for the product is left and the other
\* lines are as before.
C4_UpdateBelowOneRemoves ==
    [][\A i \in DOMAIN cart : \A n \in Quantities :
          (JsLt(n, 1) /\ UpdateQuantityVia(i, n)) =>
              /\ ~HasLine(cart', cart[i].product.id)
              /\ cart' = WithoutLine(cart, cart[i].product.id)
              /\ toast' = "Removed from cart"]_vars

C4_Witness ==
    /\ lastCall = "handleUpdateCartQuantity"
    /\ toast = "Removed from cart"
    /\ Len(cart) > 0

\* C5: adding a purchasable product inserts the line (product, 1) at the end
\* when the cart has no line for it, and otherwise adds exactly 1 to the
\* quantity of its line (a quantity that is NaN stays NaN) and changes
\* nothing else; every add applies to the cart the previous one left.
C5_AddInsertsOrIncrements ==
    [][\A id \in ProductIds :
          (ClickAddToCart(id) /\ ~Unpurchasable(products[id])) =>
              IF HasLine(cart, id)
              THEN /\ Len(cart') = Len(cart)
                   /\ \A i \in DOMAIN cart :
                         /\ cart'[i].product = cart[i].product
                         /\ cart'[i].quantity =
                              IF cart[i].product.id # id \/ cart[i].quantity = NaN
                              THEN cart[i].quantity
                              ELSE cart[i].quantity + 1
              ELSE cart' = cart \o <<[product |-> products[id], quantity |-> 1]>>]_vars

\* Two adds of one product on an empty cart: one line, quantity 2.
C5_Witness ==
    /\ lastCall = "handleAddToCart"
    /\ toast = "Added to cart!"
    /\ Len(cart) = 1
    /\ cart[1].quantity = 2

\* C6: the cart holds at most one line per product identifier.
C6_OneLinePerProduct ==
    \A i, j \in DOMAIN cart :
        cart[i].product.id = cart[j].product.id => i = j

C6_Witness ==
    /\ lastCall = "handleAddToCart"
    /\ Len(cart) = Cardinality(ProductIds)
    /\ \A i \in DOMAIN cart : cart[i].quantity = MaxQty

\* C7: removeFromCart(productId) leaves no line for productId, changes
\* nothing when there was none, and keeps every other line.
C7_RemoveDeletesOnlyThatLine ==
    [][\A id \in ProductIdArgs :
          CallRemoveFromCart(id) =>
              /\ ~HasLine(cart', id)
              /\ WithoutLine(cart', id) = WithoutLine(cart, id)
              /\ (~HasLine(cart, id) => cart' = cart)]_vars

\* removeFromCart has been called for a product that has no line: every
\* listed product still has one.
C7_Witness ==
    /\ lastCall = "handleRemoveFromCart"
    /\ \A id \in ProductIds : HasLine(cart, id)

\* C8: a checkout submitted on an empty cart sends no createOrder request.
C8_EmptyCartSendsNothing ==
    [][\A data \in CheckoutData :
          (CallCheckout(data) /\ Len(cart) = 0) =>
              /\ requests' = requests
              /\ toast' = "Your cart is empty"]_vars

C8_Witness ==
    /\ lastCall = "handleCheckout"
    /\ toast = "Your cart is empty"
    /\ Len(cart) = 0

\* C9: the failure callback of createOrder leaves the cart and the cart
\* dialog as they were.
C9_FailureKeepsCart ==
    [][\A i \in DOMAIN requests : \A message \in ErrorMessages :
          CreateOrderRejects(i, message) =>
              /\ cart' = cart
              /\ showCart' = showCart]_vars

C9_Witness ==
    /\ lastCall = "checkoutMutation.onError"
    /\ Len(cart) > 0
    /\ showCart

\* C10: the success callback of createOrder leaves the cart empty, the cart
\* dialog closed and the orders list invalidated.
C10_SuccessClearsAndInvalidates ==
    [][\A i \in DOMAIN requests :
          CreateOrderResolves(i) =>
              /\ cart' = <<>>
              /\ showCart' = FALSE
              /\ "orders" \in stale']_vars

C10_Witness ==
    /\ lastCall = "checkoutMutation.onSuccess"
    /\ cart = <<>>
    /\ ~showCart
    /\ "orders" \in stale

\* C11: the cart is emptied wholesale only by the success callback of
\* createOrder: every other step that takes lines away takes exactly the
\* line of one product, and keeps the others.
C11_ClearOnlyOnSuccess ==
    [][Len(cart') < Len(cart) =>
          \/ lastCall' = "checkoutMutation.onSuccess" /\ cart' = <<>>
          \/ /\ Len(cart') = Len(cart) - 1
             /\ \E i \in DOMAIN cart : cart' = WithoutLine(cart, cart[i].product.id)]_vars

\* The dialog has been closed on a cart of two lines, one request has
\* failed, and the lines are still there.
C11_Witness ==
    /\ lastCall = "checkoutMutation.onError"
    /\ ~showCart
    /\ Len(cart) = Cardinality(ProductIds)

\* C12: the createOrder request sent by a submission carries the delivery
\* address and instructions of the form and, line by line and in cart order,
\* the product name and the quantity the cart holds at that moment.
C12_RequestFromCartAtSubmission ==
    [][\A data \in CheckoutData :
          SubmitCheckout(data) =>
              /\ Len(requests') = Len(requests) + 1
              /\ LET r == requests'[Len(requests')]
                 IN  /\ r.delivery_address = data.delivery_address
                     /\ r.delivery_instructions = data.delivery_instructions
                     /\ Len(r.items) = Len(cart)
                     /\ \A i \in DOMAIN cart :
                           /\ r.items[i].product_name = ProductName(cart[i].product.id)
                           /\ r.items[i].quantity = cart[i].quantity]_vars

\* A request for two lines, the first with quantity 2, has just been sent.
C12_Witness ==
    /\ lastCall = "handleCheckout"
    /\ Len(requests) = 1
    /\ Len(requests[1].items) = Cardinality(ProductIds)
    /\ requests[1].items[1].quantity = 2

InvalidatedBy(callback) ==
    CASE callback \in {"createProduct.onSuccess", "updateProduct.onSuccess",
                       "deleteProduct.onSuccess"} -> "products"
      [] callback = "checkoutMutation.onSuccess" -> "orders"
      [] callback \in {"updateUser.onSuccess", "deactivateUser.onSuccess"} -> "admin-users"
      [] OTHER -> "none"

\* The step is the failure callback of some mutation.
MutationRejects ==
    \/ \E i \in DOMAIN requests : \E message \in ErrorMessages :
          CreateOrderRejects(i, message)
    \/ \E m \in BagToSet(mutations) : \E message \in ErrorMessages :
          ProductMutationRejects(m, message) \/ UserMutationRejects(m, message)

\* C14: a query is invalidated only in the step that runs the success
\* callback of a mutation, and then it is the list that mutation affects;
\* the failure callback of a mutation invalidates nothing.
C14_InvalidationOnlyOnSuccess ==
    [][/\ ~(stale' \subseteq stale) =>
             stale' = stale \cup {InvalidatedBy(lastCall')}
       /\ MutationRejects => stale' = stale]_vars

\* An update of a user has failed while the users list, invalidated by an
\* earlier success, is still stale.
C14_Witness ==
    /\ lastCall = "updateUser.onError"
    /\ stale = {"admin-users"}

\* C15: the success callback of createOrder invalidates the products query.
C15_OrderInvalidatesProducts ==
    [][\A i \in DOMAIN requests :
          CreateOrderResolves(i) => "products" \in stale']_vars

\* The step sends a product or user mutation, or is a failure callback of one.
SendsOrFails ==
    \/ \E id \in ProductIds : ClickDeleteProduct(id, TRUE)
    \/ \E data \in ProductFormData : SubmitProductForm(data)
    \/ \E id \in UserIds : ClickDeactivateUser(id, TRUE) \/ ClickActivateUser(id, TRUE)
    \/ \E userData \in UserFormData(editingUser) : SubmitUserForm(userData)
    \/ \E m \in BagToSet(mutations) : \E message \in ErrorMessages :
          ProductMutationRejects(m, message) \/ UserMutationRejects(m, message)

\* C16: sending a product or user mutation and running its failure callback
\* leave the open form or dialog, the product or user being edited, the
\* selected user, the lists and the cart as they were.
C16_FailureChangesNothing ==
    [][SendsOrFails =>
          /\ UNCHANGED <<editingProduct, showProductForm>>
          /\ UNCHANGED <<selectedUser, editingUser, userDialogOpen>>
          /\ UNCHANGED <<products, users, stale>>
          /\ UNCHANGED <<cart, showCart>>]_vars

\* The update of a user has failed: the form is open on that user.
C16_Witness ==
    /\ lastCall = "updateUser.onError"
    /\ toast = "Failed to update user"
    /\ userDialogOpen
    /\ editingUser # null

\* A click on delete product, deactivate user or activate user whose
\* confirmation is declined.
DeclinedClick ==
    \/ \E id \in ProductIds : ClickDeleteProduct(id, FALSE)
    \/ \E id \in UserIds : ClickDeactivateUser(id, FALSE)
    \/ \E id \in UserIds : ClickActivateUser(id, FALSE)

\* C17: delete product, deactivate user and activate user send their
\* request when window.confirm is accepted, and when it is declined they
\* send none and change neither the state nor the cache.
C17_ConfirmGatesRequest ==
    [][\A confirmed \in BOOLEAN :
          /\ \A id \in ProductIds :
                ClickDeleteProduct(id, confirmed) =>
                    mutations' = IF confirmed
                                 THEN mutations (+) SetToBag({[kind |-> "deleteProduct",
                                                              variables |-> [id |-> id]]})
                                 ELSE mutations
          /\ \A id \in UserIds :
                ClickDeactivateUser(id, confirmed) =>
                    mutations' = IF confirmed
                                 THEN mutations (+) SetToBag({[kind |-> "deactivateUser",
                                                              variables |-> [id |-> id]]})
                                 ELSE mutations
          /\ \A id \in UserIds :
                ClickActivateUser(id, confirmed) =>
                    mutations' = IF confirmed
                                 THEN mutations (+) SetToBag({[kind |-> "updateUser",
                                                              variables |-> [id |-> id,
                                                                 userData |-> [is_active |-> TRUE]]]})
                                 ELSE mutations
          /\ DeclinedClick =>
                UNCHANGED <<page, user, products, cart, showCart, requests, stale,
                            catalogVars, mutations, adminVars>>]_vars

\* The confirmation of a delete has been declined while the edit form is
\* open: nothing is in flight.
C17_Witness ==
    /\ lastCall = "handleDeleteProduct.declined"
    /\ editingProduct # null
    /\ mutations = <<>>

\* Every quantity of c is a number.
Numeric(c) == \A i \in DOMAIN c : c[i].quantity # NaN

\* The sum of f over the finite set S.
RECURSIVE SumOver(_, _)
SumOver(S, f) ==
    IF S = {} THEN 0
    ELSE LET x == CHOOSE x \in S : TRUE IN f[x] + SumOver(S \ {x}, f)

\* subtotal(C): the sum over the lines of price * quantity, in pesos.
Subtotal(c) ==
    SumOver(DOMAIN c, [i \in DOMAIN c |-> c[i].product.price * c[i].quantity])

\* The cart of the scenario: Pandesal 10 x 3 and Ensaymada 25 x 2.
ScenarioCart ==
    /\ Len(cart) = 2
    /\ cart[1].product.name = "Pandesal" /\ cart[1].product.price = 10
    /\ cart[1].quantity = 3
    /\ cart[2].product.name = "Ensaymada" /\ cart[2].product.price = 25
    /\ cart[2].quantity = 2

\* C18: for every non-empty cart (with numbers as quantities) the Order
\* Summary shows subtotal = sum of price * quantity, delivery fee 50.00,
\* tax = 12% of the subtotal and total = subtotal + 50.00 + tax; for the
\* scenario cart these are 80.00, 50.00, 9.60 and 139.60.
C18_TotalFormula ==
    (Len(cart) # 0 /\ Numeric(cart)) =>
        /\ OrderSummary(cart).subtotal = toFixed(100 * Subtotal(cart))
        /\ OrderSummary(cart).delivery = toFixed(5000)
        /\ OrderSummary(cart).tax = toFixed(12 * Subtotal(cart))
        /\ OrderSummary(cart).total =
              toFixed(100 * Subtotal(cart) + 5000 + 12 * Subtotal(cart))
        /\ ScenarioCart =>
              OrderSummary(cart) = [subtotal |-> "80.00", delivery |-> "50.00",
                                    tax |-> "9.60", total |-> "139.60"]

C18_Witness ==
    /\ lastCall = "handleUpdateCartQuantity"
    /\ ScenarioCart
    /\ OrderSummary(cart).total = "139.60"

\* The lines of c whose index is in S, in order.
Lines(c, S) ==
    LET F[i \in 0..Len(c)] ==
            IF i = 0 THEN <<>>
            ELSE IF i \in S THEN Append(F[i - 1], c[i]) ELSE F[i - 1]
    IN  F[Len(c)]

Reverse(c) == [i \in DOMAIN c |-> c[Len(c) + 1 - i]]

CartStep ==
    \/ \E id \in ProductIds : ClickAddToCart(id)
    \/ \E i \in DOMAIN cart :
          \/ ClickMinus(i)
          \/ \E value \in FieldValues : ChangeQuantityField(i, value)
          \/ ClickPlus(i)
          \/ ClickRemove(i)

\* C20: add, update and remove change the cart only: no request is sent or
\* answered, the product list and the stock it reports stay as they are, no
\* query is invalidated, and the lines that are kept keep their product.
C20_CartOperationsArePure ==
    [][\/ /\ UNCHANGED <<requests, mutations>>
          /\ UNCHANGED <<products, users>>
          /\ UNCHANGED stale
          /\ \A j \in DOMAIN cart' :
                \/ \E i \in DOMAIN cart : cart'[j].product = cart[i].product
                \/ \E id \in ProductIds : cart'[j].product = products[id]
       \/ ~CartStep]_vars

\* A quantity has been changed while a createOrder request is in flight and
\* the orders list is stale.
C20_Witness ==
    /\ lastCall = "handleUpdateCartQuantity"
    /\ Len(requests) = 1
    /\ requests[1].items # OrderItems(cart)
    /\ "orders" \in stale

\* The request a confirmed handleDeactivateUser(id) sends.
Deactivation(id) == [kind |-> "deactivateUser", variables |-> [id |-> id]]

\* The request of a partial update whose only field is is_active = true.
Activation(id) ==
    [kind |-> "updateUser",
     variables |-> [id |-> id, userData |-> [is_active |-> TRUE]]]

\* The step changes the active flag the service keeps for user id.
FlagChanges(id) == serviceUsers'[id].is_active # serviceUsers[id].is_active

\* C21: the active flag of a user changes only by the two confirmed
\* transitions: from active to inactive when the service carries out a
\* deactivate request, from inactive to active when it carries out an
\* activate request (the partial update of is_active alone); no other
\* operation, and no edit of the user's fields, changes it.
C21_FlagChangesOnlyByDeactivateAndActivate ==
    [][\A id \in DOMAIN serviceUsers :
          FlagChanges(id) =>
              \/ serviceUsers[id].is_active /\ UserMutationResolves(Deactivation(id))
              \/ ~serviceUsers[id].is_active /\ UserMutationResolves(Activation(id))]_vars

CatalogControlsOffered ==
    /\ ~showProductForm => ENABLED ClickAddProduct
    /\ \A id \in ProductIds :
          /\ editingProduct # products[id] => ENABLED ClickEditProduct(id)
          /\ BelowMaxMutations => ENABLED ClickDeleteProduct(id, TRUE)

\* None of the controls of product management can be used.
CatalogControlsWithheld ==
    /\ ~ENABLED ClickAddProduct
    /\ \A id \in ProductIds :
          /\ ~ENABLED ClickEditProduct(id)
          /\ \A confirmed \in BOOLEAN : ~ENABLED ClickDeleteProduct(id, confirmed)

\* C23: on ProductsPage, Add Product, Edit and Delete are offered exactly
\* when the acting user's role is not customer, and Add to Cart exactly when
\* it is customer.
C23_RoleGate ==
    page = "ProductsPage" =>
        /\ user # "customer" => CatalogControlsOffered
        /\ user = "customer" => CatalogControlsWithheld
        /\ \A id \in ProductIds :
              /\ (user = "customer" /\ BelowMaxQty(id)) => ENABLED ClickAddToCart(id)
              /\ user # "customer" => ~ENABLED ClickAddToCart(id)

\* A delivery person has opened a product for editing and has a delete
\* request in flight.
C23_Witness ==
    /\ user = "delivery_person"
    /\ editingProduct # null
    /\ BagIn([kind |-> "deleteProduct", variables |-> [id |-> 1]], mutations)

\* The createProduct request for the form's data with the given baker.
Creation(data, bakerEmail) ==
    [kind |-> "createProduct",
     variables |-> [name |-> data.name, stock_quantity |-> data.stock_quantity,
                    baker_email |-> bakerEmail]]

\* C24: submitting the form of a new product sends one createProduct
\* request whether or not a user is signed in: with no user its baker is the
\* default baker, otherwise the signed-in user's email.
C24_DefaultBakerWhenUnauthenticated ==
    [][\A data \in ProductFormData :
          (lastCall' = "handleCreateProduct" /\ SubmitProductForm(data)) =>
              /\ user = "none" =>
                    mutations' = mutations (+) SetToBag({Creation(data, "default@baker.com")})
              /\ user # "none" =>
                    mutations' = mutations (+) SetToBag({Creation(data, user \o "@bakery.com")})]_vars

\* With no user signed in a createProduct request for the default baker is
\* in flight.
C24_Witness ==
    /\ user = "none"
    /\ lastCall = "handleCreateProduct"
    /\ \E data \in ProductFormData : BagIn(Creation(data, "default@baker.com"), mutations)

\* The backing service answers createOrder request i.
CreateOrderAnswered(i) ==
    \/ CreateOrderResolves(i)
    \/ \E message \in ErrorMessages : CreateOrderRejects(i, message)

\* In the state the failure callback leaves, the checkout is not pending
\* and the form, where shown, accepts a submission.
RetryPossible ==
    /\ ~isPending
    /\ (showCart /\ Len(cart) # 0) =>
           \A data \in CheckoutData : ENABLED SubmitCheckout(data)

\* C25: an accepted submission of the checkout form puts one createOrder
\* request in flight; the service's answer takes that request away and runs
\* one callback, success or failure; nothing but a submission sends a
\* request, so a failed one is not sent again; and after the failure
\* callback the checkout is not pending and can be submitted again.
C25_OneRequestOneCallback ==
    /\ [](lastCall = "checkoutMutation.onError" => RetryPossible)
    /\ [][/\ \A data \in CheckoutData :
                SubmitCheckout(data) => Len(requests') = Len(requests) + 1
          /\ \A i \in DOMAIN requests :
                CreateOrderAnswered(i) =>
                    /\ Len(requests') = Len(requests) - 1
                    /\ lastCall' \in {"checkoutMutation.onSuccess",
                                      "checkoutMutation.onError"}
                    /\ ~isPending'
          /\ Len(requests') > Len(requests) => lastCall' = "handleCheckout"]_vars

\* The service has refused an order: nothing is in flight, and the form is
\* shown with the cart as it was.
C25_Witness ==
    /\ lastCall = "checkoutMutation.onError"
    /\ toast = "Insufficient stock"
    /\ requests = <<>>
    /\ showCart
    /\ Len(cart) # 0

\* The cart has been edited since request i was sent: it no longer holds
\* what the request carries.
EditedSince(i) == requests[i].items # OrderItems(cart)

\* C26: a quantity change or a removal made while a createOrder request is
\* outstanding leaves the request as it was sent; when the service answers
\* a request whose cart was edited since, success empties the whole cart and
\* failure leaves the edited cart.
C26_EditsWhilePending ==
    [][/\ (cart' # cart /\ lastCall' \in {"handleUpdateCartQuantity",
                                          "handleRemoveFromCart"}) =>
              requests' = requests
       /\ \A i \in DOMAIN requests :
             EditedSince(i) =>
                 /\ CreateOrderResolves(i) => cart' = <<>>
                 /\ \A message \in ErrorMessages :
                        CreateOrderRejects(i, message) => cart' = cart]_vars

\* A request was refused after every line of its cart had been removed: an
\* empty cart is never submitted, so the cart was edited while the request
\* was outstanding, and the edited cart is what the failure left.
C26_Witness ==
    /\ lastCall = "checkoutMutation.onError"
    /\ cart = <<>>
    /\ requests = <<>>

\* C27: handleUpdateCartQuantity(productId, n) with n >= 1 sets the quantity
\* of the line of productId to n and changes nothing else: the cart has the
\* same lines in the same order with the same products, every other line
\* keeps its quantity, and no line is inserted when productId has none.
C27_UpdateChangesOneQuantity ==
    [][\A productId \in ProductIdArgs : \A n \in 1..MaxQty :
          CallUpdateCartQuantity(productId, n) =>
              /\ Len(cart') = Len(cart)
              /\ \A j \in DOMAIN cart :
                    /\ cart'[j].product = cart[j].product
                    /\ cart'[j].quantity =
                           IF cart[j].product.id = productId THEN n ELSE cart[j].quantity
              /\ ~HasLine(cart, productId) => cart' = cart]_vars

\* The quantity of one of two lines has been set: the lines differ in
\* quantity.
C27_Witness ==
    /\ lastCall = "handleUpdateCartQuantity"
    /\ toast = "none"
    /\ Len(cart) = 2
    /\ cart[1].quantity = MaxQty
    /\ cart[2].quantity = 1

\* C28: a cart line keeps the product it was created with: an add of a
\* product in stock that has a line only increments that line's quantity,
\* whatever the product's data are by then, and a new result of the products query
\* changes no line; so the subtotal grows by the price of the line's product
\* and the order items carry its name.
C28_LineKeepsSnapshot ==
    [][/\ \A id \in ProductIds : \A product \in Product(id) \cup Relisted(id) :
             RefetchProducts(product) =>
                 /\ cart' = cart
                 /\ calculateCartTotal(cart') = calculateCartTotal(cart)
                 /\ OrderItems(cart') = OrderItems(cart)
       /\ \A id \in ProductIds :
             (/\ HasLine(cart, id)
              /\ products[id].stock_quantity > 0
              /\ CallAddToCart(products[id])) =>
                 /\ Len(cart') = Len(cart)
                 /\ \A j \in DOMAIN cart :
                       /\ cart'[j].product = cart[j].product
                       /\ cart'[j].quantity =
                              IF cart[j].product.id = id
                              THEN cart[j].quantity + 1 ELSE cart[j].quantity
                       /\ cart[j].product.id = id =>
                              /\ calculateCartTotal(cart') =
                                     calculateCartTotal(cart) + cart[j].product.price
                              /\ OrderItems(cart')[j].product_name = cart[j].product.name]_vars

\* A line has been added to twice and holds a product whose listed name and
\* price are different now.
C28_Witness ==
    /\ lastCall = "handleAddToCart"
    /\ \E j \in DOMAIN cart :
          /\ cart[j].quantity = 2
          /\ cart[j].product.price # products[cart[j].product.id].price
          /\ cart[j].product.name # products[cart[j].product.id].name
          /\ calculateCartTotal(cart) = 2 * cart[j].product.price

\* The step puts a deactivate request for user id in flight.
SendsDeactivation(id) ==
    CopiesIn(Deactivation(id), mutations') > CopiesIn(Deactivation(id), mutations)

\* C29: while the All Users tab is shown no row renders Deactivate, the
\* signed-in admin's own row included, and no click there calls
\* handleDeactivateUser; every deactivate request is sent from the Bakers
\* tab for a baker the list shows as active.
C29_DeactivateOnlyFromBakersTab ==
    /\ [](tabValue = 1 =>
             \A id \in DOMAIN users :
                 /\ ~DeactivateShown(users[id])
                 /\ \A confirmed \in BOOLEAN : ~ENABLED ClickDeactivateUser(id, confirmed))
    /\ [][\A id \in UserIds :
             SendsDeactivation(id) =>
                 /\ tabValue = 0
                 /\ users[id].role = "baker"
                 /\ users[id].is_active]_vars

\* The All Users tab is shown with user 2 listed as active, and the
\* deactivate request for user 2 sent from the Bakers tab is in flight.
C29_Witness ==
    /\ tabValue = 1
    /\ users # <<>>
    /\ users[2].is_active
    /\ BagIn(Deactivation(2), mutations)

\* C30: a submission of the user form sends one updateUser request for the
\* user being edited, with the form's data; with no user being edited (the
\* form opened by Add Baker) it sends nothing, invalidates nothing and
\* leaves the dialog open.
C30_SubmitWithoutEditingUserSendsNothing ==
    [][\A userData \in UserFormData(editingUser) :
          SubmitUserForm(userData) =>
              IF editingUser # null
              THEN mutations' = mutations (+) SetToBag({
                       [kind |-> "updateUser",
                        variables |-> [id |-> editingUser.id, userData |-> userData]]})
              ELSE /\ UNCHANGED <<mutations, stale, users, serviceUsers>>
                   /\ userDialogOpen'
                   /\ editingUser' = null]_vars

\* The form opened by Add Baker has been submitted: the dialog is open, no
\* user is being edited and nothing is in flight.
C30_Witness ==
    /\ lastCall = "handleUpdateUser"
    /\ userDialogOpen
    /\ editingUser = null
    /\ mutations = EmptyBag
    /\ stale = {}

====
